---- MODULE Spec2Model ----
(***************************************************************************)
(* The guided prompt builder of PromptBuilder.tsx: the answer state kept   *)
(* by useReducer(builderReducer, initialState), the handlers that dispatch *)
(* to it, and the values derived from the state on every render            *)
(* (buildPrompt, answerCompletion, useDynamicInsights).                    *)
(*                                                                         *)
(* A JavaScript string is a sequence of one-character strings, so that     *)
(* split, trim, join and the template literals are computed, not assumed.  *)
(* A stored value is string | string[] (BuilderState): a record that says  *)
(* which of the two it is.                                                 *)
(***************************************************************************)
EXTENDS Integers, Sequences, FiniteSets

VARIABLES
  state,        \* the BuilderState of useReducer
  reviewMode,   \* useState(false)
  lastTagEdit,  \* history: the arguments of the latest updateTagList call
  copied,       \* useState(false): the copy button reads 'Prompt copiado!'
  writes,       \* the number of navigator.clipboard.writeText calls not yet settled
  timers        \* the number of setTimeout callbacks scheduled and not yet run

vars == <<state, reviewMode, lastTagEdit, copied, writes, timers>>

\* the state of the copy button
copyVars == <<copied, writes, timers>>

----------------------------------------------------------------------------
(* Values: string | string[]                                               *)

Str(s) == [isArray |-> FALSE, chars |-> s, items |-> <<>>]

Arr(a) == [isArray |-> TRUE, chars |-> <<>>, items |-> a]

\* JavaScript truthiness of a stored value: '' is falsy, every array is truthy
Truthy(value) == value.isArray \/ value.chars # <<>>

RECURSIVE join(_, _)
\* Array.prototype.join
join(arr, sep) ==
  IF arr = <<>> THEN <<>>
  ELSE IF Len(arr) = 1 THEN arr[1]
  ELSE arr[1] \o sep \o join(Tail(arr), sep)

\* `${value}`: a string as it is, an array by Array.prototype.toString
toString(value) == IF value.isArray THEN join(value.items, <<",">>) ELSE value.chars

IsWhitespace(c) == c \in {" ", "\n", "\t"}

RECURSIVE trimStart(_)
trimStart(s) ==
  IF s # <<>> /\ IsWhitespace(Head(s)) THEN trimStart(Tail(s)) ELSE s

RECURSIVE trimEnd(_)
trimEnd(s) ==
  IF s # <<>> /\ IsWhitespace(s[Len(s)]) THEN trimEnd(SubSeq(s, 1, Len(s) - 1)) ELSE s

\* String.prototype.trim
trim(s) == trimEnd(trimStart(s))

RECURSIVE split(_, _)
\* String.prototype.split with a one-character separator: ''.split(',') is ['']
split(s, sep) ==
  IF \A i \in 1..Len(s) : s[i] # sep THEN <<s>>
  ELSE LET i == CHOOSE k \in 1..Len(s) : s[k] = sep /\ \A j \in 1..(k - 1) : s[j] # sep
       IN  <<SubSeq(s, 1, i - 1)>> \o split(SubSeq(s, i + 1, Len(s)), sep)

\* Fault variant: the pieces are filtered but never trimmed
parseTags_noTrim(payload) ==
  SelectSeq(split(payload, ","), LAMBDA item : item # <<>>)

\* payload.split(',').map((item) => item.trim()).filter(Boolean)
parseTags(payload) ==
  LET pieces  == split(payload, ",")
      trimmed == [i \in 1..Len(pieces) |-> trim(pieces[i])]
  IN  SelectSeq(trimmed, LAMBDA item : item # <<>>)

----------------------------------------------------------------------------
(* The descriptor table and the initial state                              *)

PromptField ==
  {"objective", "audience", "tone", "format", "constraints", "inputs", "context",
   "evaluation", "persona"}

baseQuestions ==
  << [field |-> "objective",   title |-> "Objetivo central",        type |-> "textarea", required |-> TRUE],
     [field |-> "audience",    title |-> "Público-alvo e nível",    type |-> "textarea", required |-> TRUE],
     [field |-> "persona",     title |-> "Persona do assistente",   type |-> "textarea", required |-> FALSE],
     [field |-> "tone",        title |-> "Tom e estilo desejados",  type |-> "textarea", required |-> FALSE],
     [field |-> "format",      title |-> "Formato de saída",        type |-> "textarea", required |-> FALSE],
     [field |-> "inputs",      title |-> "Informações de entrada",  type |-> "tags",     required |-> FALSE],
     [field |-> "constraints", title |-> "Restrições e regras",     type |-> "tags",     required |-> FALSE],
     [field |-> "context",     title |-> "Contexto adicional",      type |-> "textarea", required |-> FALSE],
     [field |-> "evaluation",  title |-> "Critérios de avaliação",  type |-> "textarea", required |-> FALSE] >>

\* the fields the form edits with a textarea (onChange dispatches updateField)
TextFields == {baseQuestions[i].field : i \in {k \in 1..Len(baseQuestions) : baseQuestions[k].type = "textarea"}}

\* the fields the form edits with a tag input (onChange calls updateTagList)
TagFields == {baseQuestions[i].field : i \in {k \in 1..Len(baseQuestions) : baseQuestions[k].type = "tags"}}

initialState ==
  [f \in PromptField |-> IF f \in {"constraints", "inputs"} THEN Arr(<<>>) ELSE Str(<<>>)]

----------------------------------------------------------------------------
(* The reducer                                                             *)

\* Fault variant: { ...state, field: value }, the key written is the literal "field"
builderReducer_literalKey(s, action) ==
  IF action.type = "updateField"
    THEN [f \in DOMAIN s \cup {"field"} |-> IF f = "field" THEN action.value ELSE s[f]]
  ELSE IF action.type = "updateTags"
    THEN [f \in DOMAIN s \cup {"field"} |-> IF f = "field" THEN action.tags ELSE s[f]]
  ELSE IF action.type = "reset" THEN action.payload
  ELSE s

\* Fault variant: reset returns { ...action.payload, ...state }, which is the old state
builderReducer_resetSpreadOrder(s, action) ==
  IF action.type = "updateField"
    THEN [f \in DOMAIN s \cup {action.field} |-> IF f = action.field THEN action.value ELSE s[f]]
  ELSE IF action.type = "updateTags"
    THEN [f \in DOMAIN s \cup {action.field} |-> IF f = action.field THEN action.tags ELSE s[f]]
  ELSE IF action.type = "reset"
    THEN [f \in DOMAIN s \cup DOMAIN action.payload |-> IF f \in DOMAIN s THEN s[f] ELSE action.payload[f]]
  ELSE s

\* Fault variant: updateField returns { ...initialState, [action.field]: value }
builderReducer_spreadsInitial(s, action) ==
  IF action.type = "updateField"
    THEN [f \in DOMAIN initialState \cup {action.field} |->
            IF f = action.field THEN action.value ELSE initialState[f]]
  ELSE IF action.type = "updateTags"
    THEN [f \in DOMAIN s \cup {action.field} |-> IF f = action.field THEN action.tags ELSE s[f]]
  ELSE IF action.type = "reset" THEN action.payload
  ELSE s

\* { ...state, [action.field]: value } copies every key and writes one
builderReducer(s, action) ==
  IF action.type = "updateField"
    THEN [f \in DOMAIN s \cup {action.field} |-> IF f = action.field THEN action.value ELSE s[f]]
  ELSE IF action.type = "updateTags"
    THEN [f \in DOMAIN s \cup {action.field} |-> IF f = action.field THEN action.tags ELSE s[f]]
  ELSE IF action.type = "reset" THEN action.payload
  ELSE s

----------------------------------------------------------------------------
(* The text of the template literals of buildPrompt                        *)

\* the text before ${state.persona} in the persona block
PersonaPrefix ==
  <<"V", "o", "c", "ê", " ", "é", " ">>

\* the text after ${state.persona} in the persona block
PersonaSuffix ==
  <<".">>

ObjectiveLabel ==
  <<"T", "a", "r", "e", "f", "a", " ", "p", "r", "i", "n", "c", "i", "p", "a", "l",
    ":", "\n">>

AudienceLabel ==
  <<"P", "ú", "b", "l", "i", "c", "o", "-", "a", "l", "v", "o", ":", "\n">>

ContextLabel ==
  <<"C", "o", "n", "t", "e", "x", "t", "o", ":", "\n">>

InputsLabel ==
  <<"C", "o", "n", "s", "i", "d", "e", "r", "e", " ", "o", "b", "r", "i", "g", "a",
    "t", "o", "r", "i", "a", "m", "e", "n", "t", "e", ":", "\n">>

ToneLabel ==
  <<"T", "o", "m", " ", "e", " ", "e", "s", "t", "i", "l", "o", " ", "d", "e", "s",
    "e", "j", "a", "d", "o", "s", ":", "\n">>

FormatLabel ==
  <<"F", "o", "r", "m", "a", "t", "o", " ", "d", "e", " ", "s", "a", "í", "d", "a",
    ":", "\n">>

ConstraintsLabel ==
  <<"R", "e", "s", "t", "r", "i", "ç", "õ", "e", "s", ":", "\n">>

EvaluationLabel ==
  <<"A", "v", "a", "l", "i", "a", "ç", "ã", "o", " ", "d", "e", " ", "q", "u", "a",
    "l", "i", "d", "a", "d", "e", ":", "\n">>

\* the fixed closing instruction pushed last
ClosingBlock ==
  <<"A", "n", "t", "e", "s", " ", "d", "e", " ", "r", "e", "s", "p", "o", "n", "d",
    "e", "r", ",", " ", "v", "a", "l", "i", "d", "e", " ", "s", "e", " ", "t", "o",
    "d", "a", "s", " ", "a", "s", " ", "i", "n", "f", "o", "r", "m", "a", "ç", "õ",
    "e", "s", " ", "s", "ã", "o", " ", "s", "u", "f", "i", "c", "i", "e", "n", "t",
    "e", "s", ".", " ", "C", "a", "s", "o", " ", "f", "a", "l", "t", "e", " ", "a",
    "l", "g", "o", ",", " ", "f", "a", "ç", "a", " ", "p", "e", "r", "g", "u", "n",
    "t", "a", "s", " ", "e", "s", "p", "e", "c", "í", "f", "i", "c", "a", "s", " ",
    "p", "a", "r", "a", " ", "c", "o", "m", "p", "l", "e", "m", "e", "n", "t", "a",
    "r", " ", "o", " ", "b", "r", "i", "e", "f", "i", "n", "g", ".">>

\* the separator of blocks.join('\n\n')
BlockSeparator == <<"\n", "\n">>

\* state.<tag field>.map((item) => `- ${item}`).join('\n')
bulletLines(items) == join([i \in 1..Len(items) |-> <<"-", " ">> \o items[i]], <<"\n">>)

----------------------------------------------------------------------------
(* buildPrompt                                                             *)

\* if (state.persona) blocks.push(the persona template), as a list of 0 or 1 block
personaBlock(s) ==
  IF Truthy(s.persona) THEN << PersonaPrefix \o toString(s.persona) \o PersonaSuffix >> ELSE <<>>

objectiveBlock(s) ==
  IF Truthy(s.objective) THEN << ObjectiveLabel \o toString(s.objective) >> ELSE <<>>

audienceBlock(s) ==
  IF Truthy(s.audience) THEN << AudienceLabel \o toString(s.audience) >> ELSE <<>>

contextBlock(s) ==
  IF Truthy(s.context) THEN << ContextLabel \o toString(s.context) >> ELSE <<>>

inputsBlock(s) ==
  IF Truthy(s.inputs) /\ s.inputs.isArray /\ Len(s.inputs.items) > 0
    THEN << InputsLabel \o bulletLines(s.inputs.items) >> ELSE <<>>

toneBlock(s) ==
  IF Truthy(s.tone) THEN << ToneLabel \o toString(s.tone) >> ELSE <<>>

\* Fault variant: the format block is pushed only inside the objective's if
formatBlock_needsObjective(s) ==
  IF Truthy(s.objective) /\ Truthy(s.format) THEN << FormatLabel \o toString(s.format) >> ELSE <<>>

formatBlock(s) ==
  IF Truthy(s.format) THEN << FormatLabel \o toString(s.format) >> ELSE <<>>

constraintsBlock(s) ==
  IF Truthy(s.constraints) /\ s.constraints.isArray /\ Len(s.constraints.items) > 0
    THEN << ConstraintsLabel \o bulletLines(s.constraints.items) >> ELSE <<>>

evaluationBlock(s) ==
  IF Truthy(s.evaluation) THEN << EvaluationLabel \o toString(s.evaluation) >> ELSE <<>>

\* Fault variant: the closing instruction is put first (unshift instead of push)
blocks_closingFirst(s) ==
  << ClosingBlock >> \o personaBlock(s) \o objectiveBlock(s) \o audienceBlock(s)
    \o contextBlock(s) \o inputsBlock(s) \o toneBlock(s) \o formatBlock(s)
    \o constraintsBlock(s) \o evaluationBlock(s)

\* Fault variant: the blocks are pushed in the order of baseQuestions
blocks_questionOrder(s) ==
  objectiveBlock(s) \o audienceBlock(s) \o personaBlock(s) \o toneBlock(s)
    \o formatBlock(s) \o inputsBlock(s) \o constraintsBlock(s) \o contextBlock(s)
    \o evaluationBlock(s) \o << ClosingBlock >>

\* the blocks array of buildPrompt right before the join: the pushes in source order
blocks(s) ==
  personaBlock(s) \o objectiveBlock(s) \o audienceBlock(s) \o contextBlock(s)
    \o inputsBlock(s) \o toneBlock(s) \o formatBlock(s) \o constraintsBlock(s)
    \o evaluationBlock(s) \o << ClosingBlock >>

buildPrompt(s) == join(blocks(s), BlockSeparator)

----------------------------------------------------------------------------
(* useDynamicInsights and answerCompletion                                 *)

\* the filter of pending: value.length === 0, or (value ?? '').trim().length === 0
unanswered(value) ==
  IF value.isArray THEN Len(value.items) = 0 ELSE Len(trim(value.chars)) = 0

\* the filter of answerCompletion: value.length > 0, or (value ?? '').trim().length > 0
answered(value) ==
  IF value.isArray THEN Len(value.items) > 0 ELSE Len(trim(value.chars)) > 0

\* Fault variant: the filter on question.required is left out
pending_noRequiredFilter(s) ==
  LET open == SelectSeq(baseQuestions, LAMBDA question : unanswered(s[question.field]))
  IN  [i \in 1..Len(open) |-> open[i].title]

\* the pending list of useDynamicInsights: titles of the required questions left open
pending(s) ==
  LET required == SelectSeq(baseQuestions, LAMBDA question : question.required)
      open     == SelectSeq(required, LAMBDA question : unanswered(s[question.field]))
  IN  [i \in 1..Len(open) |-> open[i].title]

FormatInsight == "Detalhe o formato de saída para alinhar expectativas e facilitar validação."

ConstraintsInsight == "Adicione restrições ou critérios de segurança para evitar respostas incorretas."

EvaluationInsight == "Defina critérios de avaliação para facilitar ajustes e iterações futuras."

\* Fault variant: the format test is state.format.trim() === ''
insights_formatTrimmed(s) ==
  (IF Truthy(s.objective) /\ ~s.format.isArray /\ trim(s.format.chars) = <<>>
     THEN << FormatInsight >> ELSE <<>>)
    \o (IF s.constraints.isArray /\ Len(s.constraints.items) = 0 THEN << ConstraintsInsight >> ELSE <<>>)
    \o (IF s.evaluation = Str(<<>>) THEN << EvaluationInsight >> ELSE <<>>)

\* the insights list of useDynamicInsights: three independent ifs, pushed in order
insights(s) ==
  (IF Truthy(s.objective) /\ s.format = Str(<<>>) THEN << FormatInsight >> ELSE <<>>)
    \o (IF s.constraints.isArray /\ Len(s.constraints.items) = 0 THEN << ConstraintsInsight >> ELSE <<>>)
    \o (IF s.evaluation = Str(<<>>) THEN << EvaluationInsight >> ELSE <<>>)

\* Math.round of the rational num / den (num >= 0, den > 0): halves round up
MathRound(num, den) == (2 * num + den) \div (2 * den)

\* Fault variant: Math.floor instead of Math.round
answerCompletion_floor(s) ==
  LET n == Len(SelectSeq(baseQuestions, LAMBDA question : answered(s[question.field])))
  IN  (n * 100) \div Len(baseQuestions)

\* Math.round((answered / baseQuestions.length) * 100)
answerCompletion(s) ==
  LET n == Len(SelectSeq(baseQuestions, LAMBDA question : answered(s[question.field])))
  IN  MathRound(n * 100, Len(baseQuestions))

----------------------------------------------------------------------------
(* The component: inputs, handlers and specifications                      *)

\* what the user types into a textarea: nothing, only white space, a text
TextInputs == { <<>>, <<" ">>, <<"a">> }

\* "a, b ,,c"
ExampleRaw == <<"a", ",", " ", "b", " ", ",", ",", "c">>

\* what the user types into a tag input of the form
TagInputs == { <<>>, ExampleRaw }

\* the longest raw tag text the tag parser is explored with
MaxRawLen == 3

RawAlphabet == {"a", ",", " "}

\* every raw tag text of at most MaxRawLen characters, and the example
RawInputs == UNION { [1..n -> RawAlphabet] : n \in 0..MaxRawLen } \cup {ExampleRaw}

Init ==
  /\ state = initialState
  /\ reviewMode = FALSE
  /\ lastTagEdit = [field |-> "none", payload |-> <<>>]
  /\ copied = FALSE
  /\ writes = 0
  /\ timers = 0

\* onChange of a textarea
updateField(field, value) ==
  /\ state' = builderReducer(state, [type |-> "updateField", field |-> field, value |-> Str(value)])
  /\ UNCHANGED <<reviewMode, lastTagEdit, copyVars>>

\* onChange of a tag input
updateTagList(field, payload) ==
  /\ state' = builderReducer(state, [type |-> "updateTags", field |-> field, tags |-> Arr(parseTags(payload))])
  /\ lastTagEdit' = [field |-> field, payload |-> payload]
  /\ UNCHANGED <<reviewMode, copyVars>>

handleReset ==
  /\ state' = builderReducer(state, [type |-> "reset", payload |-> initialState])
  /\ reviewMode' = FALSE
  /\ UNCHANGED <<lastTagEdit, copyVars>>

\* onClick of the review button: setReviewMode((value) => !value)
toggleReviewMode ==
  /\ reviewMode' = ~reviewMode
  /\ UNCHANGED <<state, lastTagEdit, copyVars>>

Next ==
  \/ \E field \in TextFields, value \in TextInputs : updateField(field, value)
  \/ \E field \in TagFields, payload \in TagInputs : updateTagList(field, payload)
  \/ handleReset
  \/ toggleReviewMode

\* the form as the user drives it
Spec == Init /\ [][Next]_vars

NextTags == \E field \in TagFields, payload \in RawInputs : updateTagList(field, payload)

\* the tag inputs alone, driven with every raw text of RawInputs
SpecTags == Init /\ [][NextTags]_vars

\* dispatch of useReducer: the next state is the reducer's result
dispatch(action) ==
  /\ state' = builderReducer(state, action)
  /\ UNCHANGED <<reviewMode, lastTagEdit, copyVars>>

\* the strings and tag lists the reducer is driven with
ReducerStrings == { <<>>, <<"a">> }

ReducerTagLists == { <<>>, << <<"a">> >> }

\* a baseline with every field answered
AnsweredBaseline ==
  [f \in PromptField |-> IF f \in {"constraints", "inputs"} THEN Arr(<< <<"a">> >>) ELSE Str(<<"a">>)]

\* the baselines reset is explored with
Baselines == {initialState, AnsweredBaseline}

NextReducer ==
  \/ \E field \in PromptField, value \in ReducerStrings :
        dispatch([type |-> "updateField", field |-> field, value |-> Str(value)])
  \/ \E field \in PromptField, tags \in ReducerTagLists :
        dispatch([type |-> "updateTags", field |-> field, tags |-> Arr(tags)])
  \/ \E payload \in Baselines :
        dispatch([type |-> "reset", payload |-> payload])

\* the reducer alone, driven with every action the Action type admits: any
\* field with a string, any field with a tag list, any baseline
SpecReducer == Init /\ [][NextReducer]_vars

----------------------------------------------------------------------------
(* The copy button                                                         *)

\* the most clipboard writes and reset timers outstanding at once
MaxCopies == 3

\* onClick of the copy button, up to the await: handleCopy calls
\* navigator.clipboard.writeText(promptPreview) and suspends. The button is
\* disabled while promptPreview.trim() is empty.
handleCopy ==
  /\ trim(buildPrompt(state)) # <<>>
  /\ writes + timers < MaxCopies
  /\ writes' = writes + 1
  /\ UNCHANGED <<state, reviewMode, lastTagEdit, copied, timers>>

\* the write resolves and handleCopy resumes: setCopied(true), then
\* setTimeout(() => setCopied(false), 2000)
writeResolved ==
  /\ writes > 0
  /\ writes' = writes - 1
  /\ copied' = TRUE
  /\ timers' = timers + 1
  /\ UNCHANGED <<state, reviewMode, lastTagEdit>>

\* the write rejects and handleCopy resumes in its catch: console.error only
writeRejected ==
  /\ writes > 0
  /\ writes' = writes - 1
  /\ UNCHANGED <<state, reviewMode, lastTagEdit, copied, timers>>

\* a timer callback runs: setCopied(false). Every timer has the same delay, so
\* the callbacks run in the order they were scheduled and the one that runs is
\* the oldest outstanding; no timer is ever cleared.
timerFires ==
  /\ timers > 0
  /\ timers' = timers - 1
  /\ copied' = FALSE
  /\ UNCHANGED <<state, reviewMode, lastTagEdit, writes>>

NextCopy ==
  \/ handleCopy
  \/ writeResolved
  \/ writeRejected
  \/ timerFires
  \/ \E field \in {"objective", "format"}, value \in TextInputs : updateField(field, value)
  \/ handleReset
  \/ toggleReviewMode

\* the copy button, with two of the textareas, the reset button and the review
\* button beside it
SpecCopy == Init /\ [][NextCopy]_vars

----------------------------------------------------------------------------
(* Vocabulary of the properties                                            *)

\* a value holds an answer: a non-empty string, a non-empty sequence
NonEmpty(value) == IF value.isArray THEN value.items # <<>> ELSE value.chars # <<>>

\* a value holds an answer once white space around a string is ignored
NonBlank(value) ==
  IF value.isArray THEN value.items # <<>>
  ELSE \E i \in 1..Len(value.chars) : ~IsWhitespace(value.chars[i])

EndsWith(s, suffix) ==
  /\ Len(suffix) <= Len(s)
  /\ SubSeq(s, Len(s) - Len(suffix) + 1, Len(s)) = suffix

StartsWith(s, prefix) ==
  /\ Len(prefix) <= Len(s)
  /\ SubSeq(s, 1, Len(prefix)) = prefix

AllAnswered == \A f \in PromptField : NonBlank(state[f])

----------------------------------------------------------------------------
(* C1 *)

\* C1: in every reachable state the document is non-empty and its last block
\* is the closing instruction block (the document is that block alone, or ends
\* with a blank line followed by it); in the all-empty state it is exactly it.
C1_ClosingBlockLast ==
  LET doc == buildPrompt(state)
  IN  /\ doc # <<>>
      /\ blocks(state)[Len(blocks(state))] = ClosingBlock
      /\ doc = ClosingBlock \/ EndsWith(doc, BlockSeparator \o ClosingBlock)
      /\ state = initialState => doc = ClosingBlock

\* persona holds an empty array and inputs a string: the persona block is
\* pushed with an empty name, no inputs block is, and the closing block is last
C1_Witness ==
  /\ state.persona = Arr(<<>>)
  /\ state.inputs = Str(<<"a">>)
  /\ state.tone = Str(<<"a">>)
  /\ blocks(state) = << PersonaPrefix \o PersonaSuffix, ToneLabel \o <<"a">>, ClosingBlock >>
  /\ EndsWith(buildPrompt(state), BlockSeparator \o ClosingBlock)

----------------------------------------------------------------------------
(* C2 *)

\* the order of the blocks the document is specified to have
BlockOrder ==
  << "persona", "objective", "audience", "context", "inputs", "tone", "format",
     "constraints", "evaluation" >>

FieldLabel(f) ==
  CASE f = "persona"     -> PersonaPrefix
    [] f = "objective"   -> ObjectiveLabel
    [] f = "audience"    -> AudienceLabel
    [] f = "context"     -> ContextLabel
    [] f = "inputs"      -> InputsLabel
    [] f = "tone"        -> ToneLabel
    [] f = "format"      -> FormatLabel
    [] f = "constraints" -> ConstraintsLabel
    [] f = "evaluation"  -> EvaluationLabel

RECURSIVE BulletedLines(_)
\* one line "- item" per item, in the order of the items
BulletedLines(items) ==
  IF Len(items) = 1 THEN <<"-", " ">> \o items[1]
  ELSE <<"-", " ">> \o items[1] \o <<"\n">> \o BulletedLines(Tail(items))

ExpectedBlock(f, value) ==
  IF value.isArray THEN FieldLabel(f) \o BulletedLines(value.items)
  ELSE IF f = "persona" THEN FieldLabel(f) \o value.chars \o PersonaSuffix
  ELSE FieldLabel(f) \o value.chars

RECURSIVE ExpectedDocumentFrom(_, _)
\* the blocks of the non-empty fields from position k of BlockOrder on, each
\* followed by a blank line, then the closing block
ExpectedDocumentFrom(s, k) ==
  IF k > Len(BlockOrder) THEN ClosingBlock
  ELSE IF NonEmpty(s[BlockOrder[k]])
    THEN ExpectedBlock(BlockOrder[k], s[BlockOrder[k]]) \o <<"\n", "\n">>
           \o ExpectedDocumentFrom(s, k + 1)
  ELSE ExpectedDocumentFrom(s, k + 1)

\* C2: the document is the blank-line-joined sequence of the blocks of the
\* non-empty fields in the order persona, objective, audience, context, inputs,
\* tone, format, constraints, evaluation, then the closing block; the blocks of
\* inputs and constraints list their items as bulleted lines in sequence order.
C2_DocumentAssembly == buildPrompt(state) = ExpectedDocumentFrom(state, 1)

\* every field is non-empty and inputs holds a, b, c: all ten blocks are joined
C2_Witness ==
  /\ \A f \in PromptField : NonEmpty(state[f])
  /\ state.inputs = Arr(<< <<"a">>, <<"b">>, <<"c">> >>)
  /\ Len(blocks(state)) = 10

----------------------------------------------------------------------------
(* C3 *)

\* p is n / total as a percentage, rounded to the nearest integer, halves up
IsRoundedPercent(p, n, total) ==
  /\ p \in 0..100
  /\ 200 * n - total < 2 * total * p
  /\ 2 * total * p <= 200 * n + total

\* C3 as stated: answered means a non-empty string or a non-empty sequence
C3_NonEmptyCount ==
  /\ IsRoundedPercent(answerCompletion(state),
                      Cardinality({f \in PromptField : NonEmpty(state[f])}),
                      Cardinality(PromptField))
  /\ state = initialState => answerCompletion(state) = 0
  /\ (\A f \in PromptField : NonEmpty(state[f])) => answerCompletion(state) = 100

\* C3 (amended): completionPercent is an integer in 0..100 equal to
\* round(100 * A / 9), A the number of the 9 fields holding a string that is
\* non-empty after trimming white space, or a non-empty sequence; it is 0 in
\* the all-empty state and 100 when all 9 fields are answered in that sense.
C3_TrimmedCount ==
  /\ IsRoundedPercent(answerCompletion(state),
                      Cardinality({f \in PromptField : NonBlank(state[f])}),
                      Cardinality(PromptField))
  /\ state = initialState => answerCompletion(state) = 0
  /\ AllAnswered => answerCompletion(state) = 100

\* five fields answered and a sixth holding only white space: 5/9 rounds up to 56
C3_Witness ==
  /\ answerCompletion(state) = 56
  /\ state.objective = Str(<<" ">>)
  /\ Cardinality({f \in PromptField : NonEmpty(state[f])}) = 6

----------------------------------------------------------------------------
(* C4 *)

\* C4: the pending list is the titles of the required fields (objective,
\* audience) whose value is empty after trimming, or an empty sequence, in
\* descriptor-table order; both titles in the all-empty state, none when all
\* 9 fields are answered.
C4_PendingRequired ==
  /\ pending(state) =
       (IF NonBlank(state.objective) THEN <<>> ELSE << "Objetivo central" >>)
         \o (IF NonBlank(state.audience) THEN <<>> ELSE << "Público-alvo e nível" >>)
  /\ state = initialState => pending(state) = << "Objetivo central", "Público-alvo e nível" >>
  /\ AllAnswered => pending(state) = <<>>

\* objective answered, audience only white space, every optional field still empty
C4_Witness ==
  /\ state.objective = Str(<<"a">>)
  /\ state.audience = Str(<<" ">>)
  /\ \A f \in PromptField \ {"objective", "audience"} : ~NonEmpty(state[f])
  /\ pending(state) = << "Público-alvo e nível" >>

----------------------------------------------------------------------------
(* C5 *)

\* C5: the advisory list is the ordered subsequence of the three messages:
\* the format advisory iff objective is a non-empty string and format is
\* exactly the empty string, the constraints advisory iff the constraints
\* sequence is empty, the evaluation advisory iff evaluation is exactly the
\* empty string.
C5_Advisories ==
  insights(state) =
    (IF NonEmpty(state.objective) /\ state.format.chars = <<>> THEN << FormatInsight >> ELSE <<>>)
      \o (IF state.constraints.items = <<>> THEN << ConstraintsInsight >> ELSE <<>>)
      \o (IF state.evaluation.chars = <<>> THEN << EvaluationInsight >> ELSE <<>>)

\* objective set and format set to white space only: the format advisory is gone
C5_Witness ==
  /\ state.objective = Str(<<"a">>)
  /\ state.format = Str(<<" ">>)
  /\ insights(state) = << ConstraintsInsight, EvaluationInsight >>

----------------------------------------------------------------------------
(* C6 *)

\* exactly the 9 keys; a string under each text field, a sequence of strings
\* under inputs and constraints
ValidState(s) ==
  /\ DOMAIN s = PromptField
  /\ \A f \in PromptField :
       IF f \in {"inputs", "constraints"}
         THEN s[f].isArray /\ s[f].items \in Seq(Seq(STRING))
         ELSE ~s[f].isArray /\ s[f].chars \in Seq(STRING)

\* the step is an action whose kind matches the kind of its field: updateField
\* on a text field, updateTags on a tag-list field, or reset to a valid baseline
MatchingStep ==
  \/ \E f \in TextFields, value \in ReducerStrings :
        dispatch([type |-> "updateField", field |-> f, value |-> Str(value)])
  \/ \E f \in TagFields, tags \in ReducerTagLists :
        dispatch([type |-> "updateTags", field |-> f, tags |-> Arr(tags)])
  \/ \E b \in {x \in Baselines : ValidState(x)} :
        dispatch([type |-> "reset", payload |-> b])

\* C6 as stated: every edit action, with any field, takes a valid state to a
\* valid state
C6_AnyActionKeepsValid == [][ValidState(state) => ValidState(state')]_vars

\* C6 (amended): every edit action whose kind matches the kind of its field
\* (updateField on one of the 7 text fields with any string, updateTags on
\* inputs or constraints with any sequence of strings, reset to a valid
\* baseline) applied to a valid state produces a valid state; the initial
\* state is valid, so every state reached by such actions is valid.
C6_MatchingActionKeepsValid ==
  /\ ValidState(state)
  /\ [][(ValidState(state) /\ MatchingStep) => ValidState(state')]_vars

\* a valid state other than the baselines, reached by text and tag edits
C6_Witness ==
  /\ ValidState(state)
  /\ state.tone = Str(<<"a">>)
  /\ state.constraints = Arr(<< <<"a">> >>)
  /\ state.objective = Str(<<>>)

\* the tag lists updateTags is explored with
TagLists == {parseTags(payload) : payload \in TagInputs}

----------------------------------------------------------------------------
(* C7 *)

\* C7: from every reachable state, reset with a baseline yields that baseline,
\* a second reset with it changes nothing, and handleReset leads to the
\* all-empty initial state.
C7_ResetToBaseline ==
  [][ /\ \A b \in Baselines :
           LET once == builderReducer(state, [type |-> "reset", payload |-> b])
           IN  /\ once = b
               /\ builderReducer(once, [type |-> "reset", payload |-> b]) = once
      /\ handleReset => state' = initialState ]_vars

\* the all-empty state again although the latest tag edit stored three tags
C7_Witness ==
  /\ state = initialState
  /\ lastTagEdit.payload = ExampleRaw

----------------------------------------------------------------------------
(* C8 *)

\* C8: a step that changes one field between empty and non-empty, all other
\* fields fixed, adds or removes exactly that field's block: the blocks of the
\* other fields stay, with the same content and in the same order, and the
\* closing block stays last.
C8_OnlyOwnBlockChanges ==
  [][ \A f \in PromptField :
        ( /\ \A g \in PromptField \ {f} : state'[g] = state[g]
          /\ NonEmpty(state[f]) # NonEmpty(state'[f]) )
        => LET old == blocks(state)
               new == blocks(state')
               others(bs) == SelectSeq(bs, LAMBDA b : ~StartsWith(b, FieldLabel(f)))
           IN  /\ others(new) = others(old)
               /\ IF NonEmpty(state'[f])
                    THEN others(old) = old /\ Len(new) = Len(old) + 1
                    ELSE others(new) = new /\ Len(old) = Len(new) + 1
               /\ new[Len(new)] = ClosingBlock ]_vars

\* the format block stands although objective is empty
C8_Witness ==
  /\ ~NonEmpty(state.objective)
  /\ blocks(state) = << FormatLabel \o <<"a">>, ClosingBlock >>

----------------------------------------------------------------------------
(* C9 *)

\* the comma-separated pieces of raw, found by position: each piece lies
\* between two neighbouring cuts (a comma, or an end of the text) and is cut
\* down to the span from its first to its last non-white-space character;
\* pieces without such a character are dropped
ExpectedTags(raw) ==
  LET n      == Len(raw)
      cuts   == {0, n + 1} \cup {i \in 1..n : raw[i] = ","}
      next(lo) == CHOOSE hi \in cuts : hi > lo /\ \A k \in cuts : ~(lo < k /\ k < hi)
      ink(lo)  == {i \in (lo + 1)..(next(lo) - 1) : ~IsWhitespace(raw[i])}
      kept   == {lo \in cuts \ {n + 1} : ink(lo) # {}}
      rank(lo) == Cardinality({k \in kept : k <= lo})
      at(r)  == CHOOSE lo \in kept : rank(lo) = r
      lowest(S)  == CHOOSE x \in S : \A y \in S : x <= y
      highest(S) == CHOOSE x \in S : \A y \in S : y <= x
  IN  [r \in 1..Cardinality(kept) |-> SubSeq(raw, lowest(ink(at(r))), highest(ink(at(r))))]

\* C9: the tag list stored by updateTagList for a raw text is the sequence of
\* its comma-separated pieces, each trimmed, empty pieces dropped, order and
\* duplicates kept ("a, b ,,c" gives a, b, c); no stored tag is empty or
\* starts or ends with white space.
C9_TagParsing ==
  /\ \A f \in TagFields :
       /\ state[f].isArray
       /\ \A i \in 1..Len(state[f].items) :
            LET tag == state[f].items[i]
            IN  tag # <<>> /\ ~IsWhitespace(tag[1]) /\ ~IsWhitespace(tag[Len(tag)])
  /\ lastTagEdit.field \in TagFields =>
       state[lastTagEdit.field] = Arr(ExpectedTags(lastTagEdit.payload))
  /\ lastTagEdit.payload = ExampleRaw =>
       state[lastTagEdit.field] = Arr(<< <<"a">>, <<"b">>, <<"c">> >>)

\* a raw text with an empty piece and a padded one, stored as the single tag a
C9_Witness ==
  /\ lastTagEdit = [field |-> "inputs", payload |-> <<",", " ", "a">>]
  /\ state.inputs = Arr(<< <<"a">> >>)
  /\ state.constraints = Arr(<< <<"a">>, <<"b">>, <<"c">> >>)

----------------------------------------------------------------------------
(* C10 *)

\* C10: a set-text-field or set-tag-list action on a field gives that field
\* the given value and leaves the other 8 fields as they were.
C10_OnlyTargetFieldChanges ==
  /\ \A f \in PromptField, value \in TextInputs :
       LET after == builderReducer(state, [type |-> "updateField", field |-> f, value |-> Str(value)])
       IN  /\ DOMAIN after = DOMAIN state
           /\ after[f] = Str(value)
           /\ \A g \in PromptField \ {f} : after[g] = state[g]
  /\ \A f \in PromptField, tags \in TagLists :
       LET after == builderReducer(state, [type |-> "updateTags", field |-> f, tags |-> Arr(tags)])
       IN  /\ DOMAIN after = DOMAIN state
           /\ after[f] = Arr(tags)
           /\ \A g \in PromptField \ {f} : after[g] = state[g]

\* after the latest tag edit, on constraints, the earlier answers still stand
C10_Witness ==
  /\ lastTagEdit = [field |-> "constraints", payload |-> <<>>]
  /\ state.constraints = Arr(<<>>)
  /\ state.objective = Str(<<"a">>)
  /\ state.inputs = Arr(<< <<"a">>, <<"b">>, <<"c">> >>)
  /\ state.persona = Str(<<" ">>)

----------------------------------------------------------------------------
(* C11 *)

\* C11: the 'copied' indicator set by a successful copy stays true until the
\* reset timer scheduled by that same copy runs; a timer scheduled by an
\* earlier copy never clears the indicator set by a later copy. The timers run
\* in the order they were scheduled, so the timer of the latest successful
\* copy is the last one outstanding: the claim says that whenever 'copied' is
\* false no reset timer is outstanding.
C11_CopiedUntilOwnTimer == ~copied => timers = 0

\* C11, its last part: a rejected clipboard write leaves 'copied' and the
\* answer state as they were
C11_RejectedWriteChangesNothing ==
  [][writeRejected => (copied' = copied /\ state' = state)]_vars

\* a write was rejected while the indicator of an earlier copy was still shown
C11_RejectedWitness == copied /\ timers = 1 /\ writes = 0 /\ state.objective = Str(<<"a">>)

====
